---- MODULE Spec2Model ----
(***************************************************************************)
(* Model of dbms/include/DB/Interpreters/SettingsCommon.h: the setting     *)
(* boxes SettingUInt64, SettingSeconds, SettingMilliseconds, SettingFloat, *)
(* SettingLoadBalancing, SettingTotalsMode and SettingOverflowMode<...>.   *)
(*                                                                         *)
(* One behaviour follows one box: its kind is chosen at construction, and  *)
(* every step is one call of a member function of that box.                *)
(*                                                                         *)
(* Numbers.  UInt64 and Poco::Timespan::TimeDiff (Int64) are modelled at   *)
(* a word of WordBits bits instead of 64, with the same modular and        *)
(* two's-complement arithmetic, because the model checker's integers are   *)
(* 32 bits wide.  The unit factors (1000, 1000000) are the program's.      *)
(*                                                                         *)
(* Text.  Names of enumeration values are strings, compared with = as the  *)
(* code compares them with ==.  Numeric text is a sequence of characters.  *)
(* An exception message is the sequence of the fragments the code          *)
(* concatenates.                                                           *)
(*                                                                         *)
(* Streams.  A ReadBuffer/WriteBuffer content is a sequence of items: the  *)
(* bytes of a varint, and, for a length-prefixed string, the string        *)
(* itself as one item after the varint of its length.                      *)
(***************************************************************************)
EXTENDS Integers, Sequences, FiniteSets, TLC

\* Width of the modelled machine word (64 in the program).
WordBits == 24

RECURSIVE Pow2(_)
Pow2(n) == IF n = 0 THEN 1 ELSE 2 * Pow2(n - 1)

W == Pow2(WordBits)

TimeDiffMax == (W \div 2) - 1
TimeDiffMin == -(W \div 2)

\* Conversion of an integer to UInt64 (modular).
ToUInt64(x) == x % W

\* Conversion of an integer to Int64 (two's complement).
ToInt64(x) == LET m == x % W IN IF m >= W \div 2 THEN m - W ELSE m

\* a * b modulo the word, by doubling, so that no intermediate value
\* leaves the model checker's integers.
RECURSIVE MulMod(_, _)
MulMod(a, b) ==
    IF b = 0 THEN 0
    ELSE LET d == (2 * MulMod(a, b \div 2)) % W
         IN  IF b % 2 = 1 THEN (d + a) % W ELSE d

\* C++ integer division: the quotient is truncated toward zero.
TruncDiv(a, b) == IF a >= 0 THEN a \div b ELSE -((-a) \div b)

Abs(a) == IF a >= 0 THEN a ELSE -a

(***************************************************************************)
(* Poco::Timespan: a signed count of microseconds.                         *)
(***************************************************************************)
MILLISECONDS == 1000
SECONDS == 1000000

\* What a signed multiplication that overflows may leave behind: the
\* wrapped product of two's-complement hardware, and the two extreme tick
\* counts as representatives of any other value.
UBOutcomes == {"wrap", "min", "max"}

\* Poco::Timespan(long seconds, long microseconds):
\*   _span(TimeDiff(seconds) * SECONDS + microseconds), with microseconds = 0.
\* The signed product is undefined when it overflows; ub names the outcome.
TimespanFromSeconds(seconds, ub) ==
    IF Abs(seconds) <= TimeDiffMax \div SECONDS
    THEN seconds * SECONDS
    ELSE CASE ub = "wrap" -> ToInt64(MulMod(ToUInt64(seconds), SECONDS))
           [] ub = "min"  -> TimeDiffMin
           [] OTHER       -> TimeDiffMax

\* Poco::Timespan(TimeDiff microseconds)
TimespanFromMicroseconds(us) == ToInt64(us)

\* Poco::Timespan::totalSeconds(): _span / SECONDS
totalSeconds(span) == TruncDiv(span, SECONDS)

\* Poco::Timespan::totalMilliseconds(): _span / MILLISECONDS
totalMilliseconds(span) == TruncDiv(span, MILLISECONDS)

(***************************************************************************)
(* Results of the helpers that may throw.                                  *)
(***************************************************************************)
Ok(v) == [err |-> "none", msg |-> <<>>, val |-> v]
Fail(code, m) == [err |-> code, msg |-> m, val |-> 0]

(***************************************************************************)
(* Field: the tagged variant, [type, num, str]: the stored type and the    *)
(* stored value, in num when it is a number and in str when it is a        *)
(* string.  safeGet<T> returns the stored value when the stored type is T  *)
(* and fails otherwise.                                                    *)
(***************************************************************************)
safeGet(type, x) ==
    IF x.type = type THEN Ok(IF type = "String" THEN x.str ELSE x.num)
    ELSE Fail("TypeMismatch", <<"Bad get: has ", x.type, ", requested ", type>>)

(***************************************************************************)
(* Text of numbers: parse<UInt64>, parse<float>, toString(float).          *)
(* A float is modelled by a whole number (every float of the model is      *)
(* one, and the conversions from the integers of the model are exact).     *)
(***************************************************************************)
Digits == <<"0", "1", "2", "3", "4", "5", "6", "7", "8", "9">>

IsDigit(c) == \E d \in 1..10 : Digits[d] = c

DigitVal(c) == (CHOOSE d \in 1..10 : Digits[d] = c) - 1

RECURSIVE DigitsValue(_, _)
DigitsValue(t, acc) ==
    IF t = <<>> THEN acc
    ELSE DigitsValue(Tail(t), (acc * 10 + DigitVal(Head(t))) % W)

AllDigits(t) == \A i \in 1..Len(t) : IsDigit(t[i])

parseUInt64(t) ==
    IF t # <<>> /\ AllDigits(t) THEN Ok(DigitsValue(t, 0))
    ELSE Fail("ParseError", <<"Cannot parse number">>)

parseFloat(t) ==
    IF t # <<>> /\ Head(t) = "-" /\ Tail(t) # <<>> /\ AllDigits(Tail(t))
    THEN Ok(-DigitsValue(Tail(t), 0))
    ELSE IF t # <<>> /\ AllDigits(t) THEN Ok(DigitsValue(t, 0))
    ELSE Fail("ParseError", <<"Cannot parse number">>)

RECURSIVE NatText(_)
NatText(n) ==
    IF n < 10 THEN <<Digits[n + 1]>>
    ELSE NatText(n \div 10) \o <<Digits[(n % 10) + 1]>>

toStringFloat(v) == IF v < 0 THEN <<"-">> \o NatText(-v) ELSE NatText(v)

\* Conversion of an integer to float.
ToFloat(x) == x

(***************************************************************************)
(* Wire: varints and length-prefixed strings.                              *)
(***************************************************************************)
RECURSIVE writeVarUInt(_)
writeVarUInt(x) ==
    IF x > 127 THEN <<(x % 128) + 128>> \o writeVarUInt(x \div 128)
    ELSE <<x>>

\* readVarUInt: [err, msg, val, rest]; a stream that ends inside the
\* number is a failed read.
RECURSIVE ReadVarFrom(_, _, _)
ReadVarFrom(buf, acc, scale) ==
    IF buf = <<>>
    THEN [err |-> "IOFailure", msg |-> <<"Attempt to read after eof">>,
          val |-> 0, rest |-> <<>>]
    ELSE LET byte == Head(buf)
             sum  == (acc + MulMod(byte % 128, scale)) % W
         IN  IF byte >= 128
             THEN ReadVarFrom(Tail(buf), sum, (scale * 128) % W)
             ELSE [err |-> "none", msg |-> <<>>, val |-> sum, rest |-> Tail(buf)]

readVarUInt(buf) == ReadVarFrom(buf, 0, 1)

\* writeBinary(const String &): the length as a varint, then the bytes.
writeBinaryString(s) == writeVarUInt(Len(s)) \o <<s>>

\* readBinary(String &): the length, then that many bytes; fewer bytes in
\* the stream than the length announces is a failed read.
readBinaryString(buf) ==
    LET n == readVarUInt(buf)
    IN  IF n.err # "none" THEN Fail(n.err, n.msg)
        ELSE IF n.rest = <<>> \/ Len(Head(n.rest)) # n.val
        THEN Fail("IOFailure", <<"Cannot read all data">>)
        ELSE Ok(Head(n.rest))

(***************************************************************************)
(* A box is [value, changed].  A call that mutates returns the box after   *)
(* the call together with what it threw: [value, changed, err, msg].       *)
(* An exception thrown while the argument of the inner set is evaluated    *)
(* leaves the call before any member is assigned.                          *)
(***************************************************************************)
Box(v) == [value |-> v, changed |-> FALSE]

Thrown(b, r) == [value |-> b.value, changed |-> b.changed, err |-> r.err, msg |-> r.msg]

Written(bytes) == [out |-> bytes, err |-> "none", msg |-> <<>>]

NotWritten(code, m) == [out |-> <<>>, err |-> code, msg |-> m]

(***************************************************************************)
(* struct SettingUInt64                                                    *)
(***************************************************************************)
SettingUInt64(x) == Box(x)

UInt64_set(b, x) == [value |-> x, changed |-> TRUE, err |-> "none", msg |-> <<>>]

UInt64_setField(b, x) ==
    LET g == safeGet("UInt64", x)
    IN  IF g.err # "none" THEN Thrown(b, g) ELSE UInt64_set(b, g.val)

UInt64_setString(b, x) ==
    LET p == parseUInt64(x)
    IN  IF p.err # "none" THEN Thrown(b, p) ELSE UInt64_set(b, p.val)

\* Variant of UInt64_setBuf: readVarUInt(value, buf), reading into the member.
UInt64_setBuf_IntoMember(b, buf) ==
    LET r == readVarUInt(buf)
    IN  IF r.err # "none"
        THEN [value |-> r.val, changed |-> b.changed, err |-> r.err, msg |-> r.msg]
        ELSE UInt64_set(b, r.val)

UInt64_setBuf(b, buf) ==
    LET r == readVarUInt(buf)
    IN  IF r.err # "none" THEN Thrown(b, r) ELSE UInt64_set(b, r.val)

UInt64_write(b) == Written(writeVarUInt(b.value))

(***************************************************************************)
(* struct SettingSeconds                                                   *)
(***************************************************************************)
SettingSeconds(seconds, ub) == Box(TimespanFromSeconds(ToInt64(seconds), ub))

Seconds_totalSeconds(b) == totalSeconds(b.value)

\* Variant of Seconds_setTimespan: the flag is not raised.
Seconds_setTimespan_KeepFlag(b, x) ==
    [value |-> x, changed |-> b.changed, err |-> "none", msg |-> <<>>]

Seconds_setTimespan(b, x) == [value |-> x, changed |-> TRUE, err |-> "none", msg |-> <<>>]

Seconds_setUInt64(b, x, ub) == Seconds_setTimespan(b, TimespanFromSeconds(ToInt64(x), ub))

Seconds_setField(b, x, ub) ==
    LET g == safeGet("UInt64", x)
    IN  IF g.err # "none" THEN Thrown(b, g) ELSE Seconds_setUInt64(b, g.val, ub)

Seconds_setString(b, x, ub) ==
    LET p == parseUInt64(x)
    IN  IF p.err # "none" THEN Thrown(b, p) ELSE Seconds_setUInt64(b, p.val, ub)

Seconds_setBuf(b, buf, ub) ==
    LET r == readVarUInt(buf)
    IN  IF r.err # "none" THEN Thrown(b, r) ELSE Seconds_setUInt64(b, r.val, ub)

Seconds_write(b) == Written(writeVarUInt(ToUInt64(totalSeconds(b.value))))

(***************************************************************************)
(* struct SettingMilliseconds                                              *)
(***************************************************************************)
SettingMilliseconds(milliseconds) == Box(TimespanFromMicroseconds(MulMod(milliseconds, 1000)))

Milliseconds_totalMilliseconds(b) == totalMilliseconds(b.value)

Milliseconds_setTimespan(b, x) == [value |-> x, changed |-> TRUE, err |-> "none", msg |-> <<>>]

Milliseconds_setUInt64(b, x) ==
    Milliseconds_setTimespan(b, TimespanFromMicroseconds(MulMod(x, 1000)))

Milliseconds_setField(b, x) ==
    LET g == safeGet("UInt64", x)
    IN  IF g.err # "none" THEN Thrown(b, g) ELSE Milliseconds_setUInt64(b, g.val)

Milliseconds_setString(b, x) ==
    LET p == parseUInt64(x)
    IN  IF p.err # "none" THEN Thrown(b, p) ELSE Milliseconds_setUInt64(b, p.val)

Milliseconds_setBuf(b, buf) ==
    LET r == readVarUInt(buf)
    IN  IF r.err # "none" THEN Thrown(b, r) ELSE Milliseconds_setUInt64(b, r.val)

\* Variant of Milliseconds_write: the tick count is written.
Milliseconds_write_Ticks(b) == Written(writeVarUInt(ToUInt64(b.value)))

Milliseconds_write(b) == Written(writeVarUInt(ToUInt64(totalMilliseconds(b.value))))

(***************************************************************************)
(* struct SettingFloat                                                     *)
(***************************************************************************)
SettingFloat(x) == Box(x)

\* Variant of Float_set: the flag is not raised.
Float_set_KeepFlag(b, x) ==
    [value |-> x, changed |-> b.changed, err |-> "none", msg |-> <<>>]

Float_set(b, x) == [value |-> x, changed |-> TRUE, err |-> "none", msg |-> <<>>]

Float_setField(b, x) ==
    IF x.type = "UInt64" THEN Float_set(b, ToFloat(safeGet("UInt64", x).val))
    ELSE IF x.type = "Int64" THEN Float_set(b, ToFloat(safeGet("Int64", x).val))
    ELSE IF x.type = "Float64" THEN Float_set(b, ToFloat(safeGet("Float64", x).val))
    ELSE Thrown(b, Fail("TYPE_MISMATCH",
            <<"Bad type of setting. Expected UInt64, Int64 or Float64, got ", x.type>>))

Float_setString(b, x) ==
    LET p == parseFloat(x)
    IN  IF p.err # "none" THEN Thrown(b, p) ELSE Float_set(b, p.val)

Float_setBuf(b, buf) ==
    LET r == readBinaryString(buf)
    IN  IF r.err # "none" THEN Thrown(b, r) ELSE Float_setString(b, r.val)

Float_write(b) == Written(writeBinaryString(toStringFloat(b.value)))

(***************************************************************************)
(* enum class LoadBalancing, struct SettingLoadBalancing                   *)
(***************************************************************************)
RANDOM == 0
NEAREST_HOSTNAME == 1

SettingLoadBalancing(x) == Box(x)

\* Variant of getLoadBalancing: the capitalised name is accepted too.
getLoadBalancing_IgnoreCase(s) ==
    IF s = "random" \/ s = "Random" THEN Ok(RANDOM)
    ELSE IF s = "nearest_hostname" THEN Ok(NEAREST_HOSTNAME)
    ELSE Fail("UNKNOWN_LOAD_BALANCING",
              <<"Unknown load balancing mode: '", s, "', must be one of '",
                "random", "', '", "nearest_hostname", "'">>)

getLoadBalancing(s) ==
    IF s = "random" THEN Ok(RANDOM)
    ELSE IF s = "nearest_hostname" THEN Ok(NEAREST_HOSTNAME)
    ELSE Fail("UNKNOWN_LOAD_BALANCING",
              <<"Unknown load balancing mode: '", s, "', must be one of '",
                "random", "', '", "nearest_hostname", "'">>)

LoadBalancing_toString(b) ==
    LET strings == <<"random", "nearest_hostname">>
    IN  IF b.value < RANDOM \/ b.value > NEAREST_HOSTNAME
        THEN [out |-> "", err |-> "UNKNOWN_OVERFLOW_MODE",
              msg |-> <<"Unknown load balancing mode">>]
        ELSE [out |-> strings[b.value + 1], err |-> "none", msg |-> <<>>]

LoadBalancing_set(b, x) == [value |-> x, changed |-> TRUE, err |-> "none", msg |-> <<>>]

LoadBalancing_setString(b, x) ==
    LET g == getLoadBalancing(x)
    IN  IF g.err # "none" THEN Thrown(b, g) ELSE LoadBalancing_set(b, g.val)

LoadBalancing_setField(b, x) ==
    LET g == safeGet("String", x)
    IN  IF g.err # "none" THEN Thrown(b, g) ELSE LoadBalancing_setString(b, g.val)

LoadBalancing_setBuf(b, buf) ==
    LET r == readBinaryString(buf)
    IN  IF r.err # "none" THEN Thrown(b, r) ELSE LoadBalancing_setString(b, r.val)

LoadBalancing_write(b) ==
    LET t == LoadBalancing_toString(b)
    IN  IF t.err # "none" THEN NotWritten(t.err, t.msg)
        ELSE Written(writeBinaryString(t.out))

(***************************************************************************)
(* enum class TotalsMode, struct SettingTotalsMode                         *)
(***************************************************************************)
BEFORE_HAVING == 0
AFTER_HAVING_INCLUSIVE == 1
AFTER_HAVING_EXCLUSIVE == 2
AFTER_HAVING_AUTO == 3

SettingTotalsMode(x) == Box(x)

\* Variant of getTotalsMode: two names exchanged.
getTotalsMode_Swapped(s) ==
    IF s = "before_having" THEN Ok(BEFORE_HAVING)
    ELSE IF s = "after_having_exclusive" THEN Ok(AFTER_HAVING_INCLUSIVE)
    ELSE IF s = "after_having_inclusive" THEN Ok(AFTER_HAVING_EXCLUSIVE)
    ELSE IF s = "after_having_auto" THEN Ok(AFTER_HAVING_AUTO)
    ELSE Fail("UNKNOWN_TOTALS_MODE",
              <<"Unknown totals mode: '", s, "', must be one of '",
                "before_having", "', '", "after_having_exclusive", "', '",
                "after_having_inclusive", "', '", "after_having_auto", "'">>)

getTotalsMode(s) ==
    IF s = "before_having" THEN Ok(BEFORE_HAVING)
    ELSE IF s = "after_having_exclusive" THEN Ok(AFTER_HAVING_EXCLUSIVE)
    ELSE IF s = "after_having_inclusive" THEN Ok(AFTER_HAVING_INCLUSIVE)
    ELSE IF s = "after_having_auto" THEN Ok(AFTER_HAVING_AUTO)
    ELSE Fail("UNKNOWN_TOTALS_MODE",
              <<"Unknown totals mode: '", s, "', must be one of '",
                "before_having", "', '", "after_having_exclusive", "', '",
                "after_having_inclusive", "', '", "after_having_auto", "'">>)

TotalsMode_toString(b) ==
    CASE b.value = BEFORE_HAVING          -> [out |-> "before_having", err |-> "none", msg |-> <<>>]
      [] b.value = AFTER_HAVING_EXCLUSIVE -> [out |-> "after_having_exclusive", err |-> "none", msg |-> <<>>]
      [] b.value = AFTER_HAVING_INCLUSIVE -> [out |-> "after_having_inclusive", err |-> "none", msg |-> <<>>]
      [] b.value = AFTER_HAVING_AUTO      -> [out |-> "after_having_auto", err |-> "none", msg |-> <<>>]
      [] OTHER -> [out |-> "", err |-> "ARGUMENT_OUT_OF_BOUND",
                   msg |-> <<"Unknown TotalsMode enum value: ", "<value>">>]

TotalsMode_set(b, x) == [value |-> x, changed |-> TRUE, err |-> "none", msg |-> <<>>]

TotalsMode_setString(b, x) ==
    LET g == getTotalsMode(x)
    IN  IF g.err # "none" THEN Thrown(b, g) ELSE TotalsMode_set(b, g.val)

TotalsMode_setField(b, x) ==
    LET g == safeGet("String", x)
    IN  IF g.err # "none" THEN Thrown(b, g) ELSE TotalsMode_setString(b, g.val)

TotalsMode_setBuf(b, buf) ==
    LET r == readBinaryString(buf)
    IN  IF r.err # "none" THEN Thrown(b, r) ELSE TotalsMode_setString(b, r.val)

TotalsMode_write(b) ==
    LET t == TotalsMode_toString(b)
    IN  IF t.err # "none" THEN NotWritten(t.err, t.msg)
        ELSE Written(writeBinaryString(t.out))

(***************************************************************************)
(* enum class OverflowMode, template <bool enable_mode_any>                *)
(* struct SettingOverflowMode                                              *)
(***************************************************************************)
THROW == 0
BREAK == 1
ANY == 2

SettingOverflowMode(x) == Box(x)

getOverflowModeForGroupBy(s) ==
    IF s = "throw" THEN Ok(THROW)
    ELSE IF s = "break" THEN Ok(BREAK)
    ELSE IF s = "any" THEN Ok(ANY)
    ELSE Fail("UNKNOWN_OVERFLOW_MODE",
              <<"Unknown overflow mode: '", s, "', must be one of '",
                "throw", "', '", "break", "', '", "any", "'">>)

\* Variant of getOverflowMode: the check of the mode is left out.
getOverflowMode_Unchecked(enable_mode_any, s) == getOverflowModeForGroupBy(s)

getOverflowMode(enable_mode_any, s) ==
    LET mode == getOverflowModeForGroupBy(s)
    IN  IF mode.err # "none" THEN mode
        ELSE IF mode.val = ANY /\ ~enable_mode_any
        THEN Fail("ILLEGAL_OVERFLOW_MODE",
                  <<"Illegal overflow mode: 'any' is only for 'group_by_overflow_mode'">>)
        ELSE mode

OverflowMode_toString(b) ==
    LET strings == <<"throw", "break", "any">>
    IN  IF b.value < THROW \/ b.value > ANY
        THEN [out |-> "", err |-> "UNKNOWN_OVERFLOW_MODE",
              msg |-> <<"Unknown overflow mode">>]
        ELSE [out |-> strings[b.value + 1], err |-> "none", msg |-> <<>>]

OverflowMode_set(b, x) == [value |-> x, changed |-> TRUE, err |-> "none", msg |-> <<>>]

OverflowMode_setString(enable_mode_any, b, x) ==
    LET g == getOverflowMode(enable_mode_any, x)
    IN  IF g.err # "none" THEN Thrown(b, g) ELSE OverflowMode_set(b, g.val)

OverflowMode_setField(enable_mode_any, b, x) ==
    LET g == safeGet("String", x)
    IN  IF g.err # "none" THEN Thrown(b, g)
        ELSE OverflowMode_setString(enable_mode_any, b, g.val)

OverflowMode_setBuf(enable_mode_any, b, buf) ==
    LET r == readBinaryString(buf)
    IN  IF r.err # "none" THEN Thrown(b, r)
        ELSE OverflowMode_setString(enable_mode_any, b, r.val)

OverflowMode_write(b) ==
    LET t == OverflowMode_toString(b)
    IN  IF t.err # "none" THEN NotWritten(t.err, t.msg)
        ELSE Written(writeBinaryString(t.out))

(***************************************************************************)
(* The box kinds, and each member function dispatched on the kind.         *)
(***************************************************************************)
Kinds == {"SettingUInt64", "SettingSeconds", "SettingMilliseconds", "SettingFloat",
          "SettingLoadBalancing", "SettingTotalsMode",
          "SettingOverflowMode_false", "SettingOverflowMode_true"}

DurationKinds == {"SettingSeconds", "SettingMilliseconds"}

EnumKinds == {"SettingLoadBalancing", "SettingTotalsMode",
              "SettingOverflowMode_false", "SettingOverflowMode_true"}

OverflowKinds == {"SettingOverflowMode_false", "SettingOverflowMode_true"}

enable_mode_any(k) == k = "SettingOverflowMode_true"

\* set(T x) with T the native type of the box: UInt64 for the integer and the
\* duration boxes, float, or the enumeration.
DoSet(k, b, x, ub) ==
    CASE k = "SettingUInt64"        -> UInt64_set(b, x)
      [] k = "SettingSeconds"       -> Seconds_setUInt64(b, x, ub)
      [] k = "SettingMilliseconds"  -> Milliseconds_setUInt64(b, x)
      [] k = "SettingFloat"         -> Float_set(b, x)
      [] k = "SettingLoadBalancing" -> LoadBalancing_set(b, x)
      [] k = "SettingTotalsMode"    -> TotalsMode_set(b, x)
      [] OTHER                      -> OverflowMode_set(b, x)

\* set(Poco::Timespan x) and operator= (Poco::Timespan x) of the duration boxes.
DoSetTimespan(k, b, x) ==
    IF k = "SettingSeconds" THEN Seconds_setTimespan(b, x)
    ELSE Milliseconds_setTimespan(b, x)

DoSetField(k, b, x, ub) ==
    CASE k = "SettingUInt64"        -> UInt64_setField(b, x)
      [] k = "SettingSeconds"       -> Seconds_setField(b, x, ub)
      [] k = "SettingMilliseconds"  -> Milliseconds_setField(b, x)
      [] k = "SettingFloat"         -> Float_setField(b, x)
      [] k = "SettingLoadBalancing" -> LoadBalancing_setField(b, x)
      [] k = "SettingTotalsMode"    -> TotalsMode_setField(b, x)
      [] OTHER                      -> OverflowMode_setField(enable_mode_any(k), b, x)

DoSetString(k, b, x, ub) ==
    CASE k = "SettingUInt64"        -> UInt64_setString(b, x)
      [] k = "SettingSeconds"       -> Seconds_setString(b, x, ub)
      [] k = "SettingMilliseconds"  -> Milliseconds_setString(b, x)
      [] k = "SettingFloat"         -> Float_setString(b, x)
      [] k = "SettingLoadBalancing" -> LoadBalancing_setString(b, x)
      [] k = "SettingTotalsMode"    -> TotalsMode_setString(b, x)
      [] OTHER                      -> OverflowMode_setString(enable_mode_any(k), b, x)

DoSetBuf(k, b, buf, ub) ==
    CASE k = "SettingUInt64"        -> UInt64_setBuf(b, buf)
      [] k = "SettingSeconds"       -> Seconds_setBuf(b, buf, ub)
      [] k = "SettingMilliseconds"  -> Milliseconds_setBuf(b, buf)
      [] k = "SettingFloat"         -> Float_setBuf(b, buf)
      [] k = "SettingLoadBalancing" -> LoadBalancing_setBuf(b, buf)
      [] k = "SettingTotalsMode"    -> TotalsMode_setBuf(b, buf)
      [] OTHER                      -> OverflowMode_setBuf(enable_mode_any(k), b, buf)

DoWrite(k, b) ==
    CASE k = "SettingUInt64"        -> UInt64_write(b)
      [] k = "SettingSeconds"       -> Seconds_write(b)
      [] k = "SettingMilliseconds"  -> Milliseconds_write(b)
      [] k = "SettingFloat"         -> Float_write(b)
      [] k = "SettingLoadBalancing" -> LoadBalancing_write(b)
      [] k = "SettingTotalsMode"    -> TotalsMode_write(b)
      [] OTHER                      -> OverflowMode_write(b)

DoToString(k, b) ==
    CASE k = "SettingLoadBalancing" -> LoadBalancing_toString(b)
      [] k = "SettingTotalsMode"    -> TotalsMode_toString(b)
      [] OTHER                      -> OverflowMode_toString(b)

\* The accessors: the conversion operator of the scalar and enumerated
\* boxes, totalSeconds() and totalMilliseconds() of the duration boxes.
DoGet(k, b) ==
    CASE k = "SettingSeconds"      -> Seconds_totalSeconds(b)
      [] k = "SettingMilliseconds" -> Milliseconds_totalMilliseconds(b)
      [] OTHER                     -> b.value

(***************************************************************************)
(* The values the calls are made with.                                     *)
(***************************************************************************)
\* The largest native counts whose tick count fits the signed tick word.
MaxSecondsCount == TimeDiffMax \div SECONDS
MaxMillisecondsCount == TimeDiffMax \div MILLISECONDS

\* UInt64 arguments: small counts, the last count that fits each duration
\* box and the first that does not, a count whose tick count wraps the
\* unsigned word, and the largest UInt64.
NativeCounts == {0, 1, 7, 1500,
                 MaxSecondsCount, MaxSecondsCount + 1,
                 MaxMillisecondsCount, MaxMillisecondsCount + 1,
                 (W \div 1000) + 1, W - 1}

\* Counts a numeric box is constructed with.
CtorCounts == {0, 1500, MaxSecondsCount + 1, MaxMillisecondsCount + 1}

\* Poco::Timespan arguments, in microseconds.
Timespans == {0, 1, 999, 1000, 1500, 2500000, 3000000, -1, -1500, -2000, -3000000,
              TimeDiffMax, TimeDiffMin}

FloatValues == {-1, 0, 5}

NumericTexts == {NatText(n) : n \in {0, 7, 1500, MaxSecondsCount + 1}}
                    \cup {<<>>, <<"a", "b", "c">>, <<"1", "x">>, <<"-", "1">>}

EnumTexts == {"random", "nearest_hostname",
              "before_having", "after_having_inclusive", "after_having_exclusive",
              "after_having_auto",
              "throw", "break", "any",
              "bogus", "Random", " random", "", "ANY"}

NumField(type, n) == [type |-> type, num |-> n, str |-> ""]

StrField(t) == [type |-> "String", num |-> 0, str |-> t]

NumericFields == {NumField("UInt64", 5), NumField("UInt64", 1500),
                  NumField("UInt64", MaxSecondsCount + 1),
                  NumField("Int64", -1), NumField("Float64", 5), NumField("Null", 0)}

StringFields == {StrField(t) : t \in {"random", "after_having_auto", "any", "break", "bogus"}}

VarintStreams == {writeVarUInt(n) : n \in NativeCounts} \cup {<<>>, <<128>>, <<255, 255>>}

FloatStreams == {writeBinaryString(t) : t \in NumericTexts}
                    \cup {<<>>, <<128>>, <<2>>, <<2, <<"7">>>>}

EnumStreams == {writeBinaryString(t) : t \in EnumTexts}
                    \cup {<<>>, <<128>>, <<6>>, <<6, "any">>}

Enumerators(k) ==
    CASE k = "SettingLoadBalancing" -> RANDOM..NEAREST_HOSTNAME
      [] k = "SettingTotalsMode"    -> BEFORE_HAVING..AFTER_HAVING_AUTO
      [] OTHER                      -> THROW..ANY

\* What set(T) is called with: for an enumeration also the integers next to
\* its enumerators, which a cast makes values of the type.
NativeArgs(k) ==
    CASE k \in {"SettingUInt64", "SettingSeconds", "SettingMilliseconds"} -> NativeCounts
      [] k = "SettingFloat"         -> FloatValues
      [] k = "SettingLoadBalancing" -> (RANDOM - 1)..(NEAREST_HOSTNAME + 1)
      [] k = "SettingTotalsMode"    -> (BEFORE_HAVING - 1)..(AFTER_HAVING_AUTO + 1)
      [] OTHER                      -> (THROW - 1)..(ANY + 1)

\* What the owner of a box constructs it with: any count or float, any
\* enumerator, and for the overflow mode that does not enable "any" one of
\* the modes that box is for.
CtorArgs(k) ==
    CASE k \in {"SettingUInt64", "SettingSeconds", "SettingMilliseconds"} -> CtorCounts
      [] k = "SettingFloat"              -> FloatValues
      [] k = "SettingOverflowMode_false" -> {THROW, BREAK}
      [] OTHER                           -> Enumerators(k)

FieldArgs(k) == IF k \in EnumKinds THEN StringFields \cup {NumField("UInt64", 5)}
                ELSE NumericFields \cup {StrField("any")}

TextArgs(k) == IF k \in EnumKinds THEN EnumTexts ELSE NumericTexts

StreamArgs(k) ==
    IF k \in EnumKinds THEN EnumStreams
    ELSE IF k = "SettingFloat" THEN FloatStreams
    ELSE VarintStreams

Construct(k, x, ub) ==
    CASE k = "SettingUInt64"        -> SettingUInt64(x)
      [] k = "SettingSeconds"       -> SettingSeconds(x, ub)
      [] k = "SettingMilliseconds"  -> SettingMilliseconds(x)
      [] k = "SettingFloat"         -> SettingFloat(x)
      [] k = "SettingLoadBalancing" -> SettingLoadBalancing(x)
      [] k = "SettingTotalsMode"    -> SettingTotalsMode(x)
      [] OTHER                      -> SettingOverflowMode(x)

\* The box a receiver constructs before it reads a setting: the default
\* argument of the constructor (0, or OverflowMode::THROW); the boxes without
\* one are constructed with their first enumerator.
DefaultBox(k) ==
    CASE k = "SettingLoadBalancing" -> SettingLoadBalancing(RANDOM)
      [] k = "SettingTotalsMode"    -> SettingTotalsMode(BEFORE_HAVING)
      [] k \in OverflowKinds        -> SettingOverflowMode(THROW)
      [] OTHER                      -> Construct(k, 0, "wrap")

(***************************************************************************)
(* State.                                                                  *)
(*   kind, value, changed  the box                                         *)
(*   ctor     the value the constructor stored                             *)
(*   given    how the stored value was last given: as a native count n of  *)
(*            a duration box, as a duration, or otherwise                  *)
(*   parsed   no set(T) with an enumeration value was called yet           *)
(*   last     the last call: its name, what it threw, what it returned or  *)
(*            wrote, the text it looked up, and whether it stored the      *)
(*            value the box already held                                   *)
(*   peer     the receiver's box, while the last call is a transmit        *)
(***************************************************************************)
VARIABLES kind, value, changed, ctor, given, parsed, last, peer

vars == <<kind, value, changed, ctor, given, parsed, last, peer>>

box == [value |-> value, changed |-> changed]

NoCall == [op |-> "ctor", err |-> "none", msg |-> <<>>, out |-> <<>>, str |-> "",
           res |-> 0, hasText |-> FALSE, text |-> "", same |-> FALSE]

Given(k, how, n) == IF k \in DurationKinds THEN [how |-> how, n |-> n]
                    ELSE [how |-> "other", n |-> 0]

NoPeer == [value |-> 0, changed |-> FALSE, err |-> "none"]

Init ==
    /\ kind \in Kinds
    /\ \E x \in CtorArgs(kind), ub \in UBOutcomes :
          LET b == Construct(kind, x, ub)
          IN  /\ value = b.value
              /\ changed = b.changed
              /\ ctor = b.value
              /\ given = Given(kind, "count", x)
              /\ last = NoCall
    /\ parsed = TRUE
    /\ peer = NoPeer

\* The box and the record of a mutating call that returned r.
Mutated(op, r, hasText, text) ==
    /\ value' = r.value
    /\ changed' = r.changed
    /\ last' = [NoCall EXCEPT !.op = op, !.err = r.err, !.msg = r.msg,
                              !.hasText = hasText, !.text = text,
                              !.same = (r.value = value)]
    /\ peer' = NoPeer

\* set(T x) and, for the scalar and enumerated boxes, operator= (T x).
SetNative ==
    \E x \in NativeArgs(kind), ub \in UBOutcomes :
        LET r == DoSet(kind, box, x, ub)
        IN  /\ Mutated("set", r, FALSE, "")
            /\ given' = Given(kind, "count", x)
            /\ parsed' = (parsed /\ kind \notin EnumKinds)
            /\ UNCHANGED <<kind, ctor>>

\* set(Poco::Timespan x) and operator= (Poco::Timespan x).
SetTimespan ==
    /\ kind \in DurationKinds
    /\ \E x \in Timespans :
        LET r == DoSetTimespan(kind, box, x)
        IN  /\ Mutated("setTimespan", r, FALSE, "")
            /\ given' = Given(kind, "duration", x)
            /\ UNCHANGED <<kind, ctor, parsed>>

\* set(const Field & x)
SetField ==
    \E x \in FieldArgs(kind), ub \in UBOutcomes :
        LET r == DoSetField(kind, box, x, ub)
            isText == kind \in EnumKinds /\ x.type = "String"
        IN  /\ Mutated("setField", r, isText, IF isText THEN x.str ELSE "")
            /\ given' = IF r.err = "none" THEN Given(kind, "count", x.num) ELSE given
            /\ UNCHANGED <<kind, ctor, parsed>>

\* set(const String & x)
SetString ==
    \E x \in TextArgs(kind), ub \in UBOutcomes :
        LET r == DoSetString(kind, box, x, ub)
            isText == kind \in EnumKinds
        IN  /\ Mutated("setString", r, isText, IF isText THEN x ELSE "")
            /\ given' = IF r.err = "none" /\ kind \in DurationKinds
                        THEN Given(kind, "count", parseUInt64(x).val) ELSE given
            /\ UNCHANGED <<kind, ctor, parsed>>

\* set(ReadBuffer & buf)
SetBuf ==
    \E buf \in StreamArgs(kind), ub \in UBOutcomes :
        LET r == DoSetBuf(kind, box, buf, ub)
            s == IF kind \in EnumKinds THEN readBinaryString(buf) ELSE Fail("none", <<>>)
            isText == kind \in EnumKinds /\ s.err = "none"
        IN  /\ Mutated("setBuf", r, isText, IF isText THEN s.val ELSE "")
            /\ given' = IF r.err = "none" /\ kind \in DurationKinds
                        THEN Given(kind, "count", readVarUInt(buf).val) ELSE given
            /\ UNCHANGED <<kind, ctor, parsed>>

\* write(WriteBuffer & buf) const
Write ==
    LET w == DoWrite(kind, box)
    IN  /\ last' = [NoCall EXCEPT !.op = "write", !.err = w.err, !.msg = w.msg,
                                  !.out = w.out]
        /\ peer' = NoPeer
    /\ UNCHANGED <<kind, value, changed, ctor, given, parsed>>

\* String toString() const
CallToString ==
    /\ kind \in EnumKinds
    /\ LET t == DoToString(kind, box)
       IN  last' = [NoCall EXCEPT !.op = "toString", !.err = t.err, !.msg = t.msg,
                                  !.str = t.out]
    /\ peer' = NoPeer
    /\ UNCHANGED <<kind, value, changed, ctor, given, parsed>>

\* The accessor: operator T() const, totalSeconds(), totalMilliseconds().
Get ==
    /\ last' = [NoCall EXCEPT !.op = "get", !.res = DoGet(kind, box)]
    /\ peer' = NoPeer
    /\ UNCHANGED <<kind, value, changed, ctor, given, parsed>>

\* A setting sent to a remote server: write on this box, then
\* set(ReadBuffer &) with the written bytes on the receiver's fresh box.
Transmit ==
    \E ub \in UBOutcomes :
        LET w == DoWrite(kind, box)
            r == DoSetBuf(kind, DefaultBox(kind), w.out, ub)
        IN  /\ last' = [NoCall EXCEPT !.op = "transmit", !.err = w.err, !.msg = w.msg,
                                      !.out = w.out]
            /\ peer' = IF w.err # "none" THEN NoPeer
                       ELSE [value |-> r.value, changed |-> r.changed, err |-> r.err]
            /\ UNCHANGED <<kind, value, changed, ctor, given, parsed>>

Next ==
    \/ SetNative
    \/ SetTimespan
    \/ SetField
    \/ SetString
    \/ SetBuf
    \/ Write
    \/ CallToString
    \/ Get
    \/ Transmit

Spec == Init /\ [][Next]_vars

(***************************************************************************)
(* Properties.                                                             *)
(***************************************************************************)
SetOps == {"set", "setTimespan", "setField", "setString", "setBuf"}

TextOps == {"setField", "setString", "setBuf"}

\* The kind of error an error code stands for.
ErrorKind(code) ==
    CASE code = "none"                   -> "none"
      [] code = "ParseError"             -> "ParseError"
      [] code = "TypeMismatch"           -> "TypeMismatch"
      [] code = "TYPE_MISMATCH"          -> "TypeMismatch"
      [] code = "UNKNOWN_LOAD_BALANCING" -> "UnknownEnumValue"
      [] code = "UNKNOWN_TOTALS_MODE"    -> "UnknownEnumValue"
      [] code = "UNKNOWN_OVERFLOW_MODE"  -> "UnknownEnumValue"
      [] code = "ILLEGAL_OVERFLOW_MODE"  -> "IllegalValue"
      [] code = "ARGUMENT_OUT_OF_BOUND"  -> "OutOfRange"
      [] OTHER                           -> "IOFailure"

\* The canonical names of each enumeration.
CanonicalNames(k) ==
    CASE k = "SettingLoadBalancing" -> {"random", "nearest_hostname"}
      [] k = "SettingTotalsMode"    -> {"before_having", "after_having_inclusive",
                                        "after_having_exclusive", "after_having_auto"}
      [] OTHER                      -> {"throw", "break", "any"}

Contains(m, t) == \E i \in 1..Len(m) : m[i] = t

\* Ticks of the native unit of a duration box.
Unit(k) == IF k = "SettingSeconds" THEN SECONDS ELSE MILLISECONDS

\* The tick count of n native units fits the signed tick word.
CountFits(k, n) == n <= TimeDiffMax \div Unit(k)

\* The duration is a whole number of native units (every value of the other
\* boxes counts as whole).
WholeUnits(k, v) == k \in DurationKinds => v % Unit(k) = 0

\* C1: changed is false right after construction; every successful set call
\* (native value, duration, variant, text, binary stream), also one that
\* stores the value already held, leaves changed true; and once changed is
\* true, no call (set, write, toString, accessor) makes it false again.
C1_ChangedLatch ==
    /\ ~changed
    /\ [][ /\ (changed => changed')
           /\ ((last'.op \in SetOps /\ last'.err = "none") => changed') ]_vars

C1_Witness ==
    /\ last.op \in SetOps
    /\ last.err = "none"
    /\ last.same
    /\ changed

\* C2: a set call that fails, whatever the cause (ParseError, TypeMismatch,
\* UnknownEnumValue, IllegalValue, I/O failure), leaves value and changed as
\* they were before the call.
C2_FailedSetKeepsBox ==
    [][ (last'.op \in SetOps /\ last'.err # "none")
            => (value' = value /\ changed' = changed) ]_vars

C2_Witness ==
    /\ last.op = "setBuf"
    /\ last.err = "IOFailure"
    /\ changed
    /\ value # ctor

\* C3: after a transmit (write, then set(stream) with the written bytes on a
\* fresh box of the same kind) whose write succeeded, the receiver's box
\* holds the sender's value, for every value a box holds (for a duration
\* box: every whole number of its native unit).
C3_BinaryRoundTrip ==
    (last.op = "transmit" /\ last.err = "none" /\ WholeUnits(kind, value))
        => (peer.err = "none" /\ peer.value = value)

\* C4: on an overflow-mode box, set with the text "any" (as text, as a
\* string variant, or read from a stream) fails with ILLEGAL_OVERFLOW_MODE,
\* an IllegalValue and not an UnknownEnumValue, when the box does not enable
\* "any", and stores ANY and raises changed when it does; "throw" and
\* "break" are stored by both.
C4_AnyLegality ==
    (kind \in OverflowKinds /\ last.op \in TextOps /\ last.hasText) =>
        /\ (last.text = "any" /\ ~enable_mode_any(kind)) =>
                (last.err = "ILLEGAL_OVERFLOW_MODE" /\ ErrorKind(last.err) = "IllegalValue")
        /\ (last.text = "any" /\ enable_mode_any(kind)) =>
                (last.err = "none" /\ value = ANY /\ changed)
        /\ last.text = "throw" => (last.err = "none" /\ value = THROW /\ changed)
        /\ last.text = "break" => (last.err = "none" /\ value = BREAK /\ changed)

C4_Witness ==
    /\ kind = "SettingOverflowMode_false"
    /\ last.op = "setBuf"
    /\ last.hasText
    /\ last.text = "any"
    /\ last.err = "ILLEGAL_OVERFLOW_MODE"

\* C5: the overflow-mode box that does not enable "any" never holds ANY.
C5_NeverAny == kind = "SettingOverflowMode_false" => value # ANY

\* C6: while changed is false, value is the value the box was constructed
\* with.
C6_UnchangedIsConstructed == ~changed => value = ctor

C6_Witness ==
    /\ ~changed
    /\ last.op \in SetOps
    /\ last.err # "none"

\* C7: for the load-balancing box, the totals-mode box and the overflow-mode
\* box that enables "any": set(text) with the name toString() returned
\* succeeds and stores the value the box holds, and toString() after a
\* successful set of a name returns that name.
C7_NameTable ==
    (kind \in EnumKinds /\ kind # "SettingOverflowMode_false") =>
        /\ (last.op = "toString" /\ last.err = "none") =>
                LET r == DoSetString(kind, box, last.str, "wrap")
                IN  r.err = "none" /\ r.value = value
        /\ (last.op \in TextOps /\ last.hasText /\ last.err = "none") =>
                LET t == DoToString(kind, box)
                IN  t.err = "none" /\ t.out = last.text

C7_Witness ==
    /\ kind = "SettingTotalsMode"
    /\ last.op = "setString"
    /\ last.text = "after_having_exclusive"
    /\ value = AFTER_HAVING_EXCLUSIVE

\* C8: on an enumerated box, set with a text that is not exactly one of the
\* canonical names of its enumeration fails with an UnknownEnumValue whose
\* message contains the text and every canonical name; a text that is one
\* of the names never fails with an UnknownEnumValue.
C8_UnknownText ==
    (kind \in EnumKinds /\ last.op \in TextOps /\ last.hasText) =>
        IF last.text \notin CanonicalNames(kind)
        THEN /\ ErrorKind(last.err) = "UnknownEnumValue"
             /\ Contains(last.msg, last.text)
             /\ \A n \in CanonicalNames(kind) : Contains(last.msg, n)
        ELSE ErrorKind(last.err) # "UnknownEnumValue"

C8_Witness ==
    /\ kind = "SettingLoadBalancing"
    /\ last.op = "setString"
    /\ last.text = "Random"
    /\ last.err = "UNKNOWN_LOAD_BALANCING"

\* C9, as claimed: a duration box constructed from or set to the native
\* count n returns n from its accessor and writes n; a box set to the
\* duration d writes floor(d / unit).
C9_WireUnit_Claimed ==
    kind \in DurationKinds =>
        /\ (given.how = "count" /\ last.op = "get") => last.res = given.n
        /\ (given.how = "count" /\ last.op = "write") => last.out = writeVarUInt(given.n)
        /\ (given.how = "duration" /\ last.op = "write") =>
                last.out = writeVarUInt(ToUInt64(given.n \div Unit(kind)))

\* C9, amended: a duration box constructed from or set to a native count n
\* whose tick count fits the signed tick word returns n from its accessor
\* and writes n; a box set to the duration d writes d / unit truncated
\* toward zero and converted to UInt64, which is floor(d / unit) for d >= 0.
C9_WireUnit ==
    kind \in DurationKinds =>
        /\ (given.how = "count" /\ CountFits(kind, given.n) /\ last.op = "get") =>
                last.res = given.n
        /\ (given.how = "count" /\ CountFits(kind, given.n) /\ last.op = "write") =>
                last.out = writeVarUInt(given.n)
        /\ (given.how = "duration" /\ last.op = "write") =>
                /\ last.out = writeVarUInt(ToUInt64(TruncDiv(given.n, Unit(kind))))
                /\ given.n >= 0 => last.out = writeVarUInt(given.n \div Unit(kind))

C9_Witness ==
    /\ kind = "SettingMilliseconds"
    /\ given = [how |-> "duration", n |-> 1500]
    /\ last.op = "write"
    /\ last.out = writeVarUInt(1)

\* C10: toString() and write on an enumerated box whose ordinal is not one
\* of its enumerators fail with an OutOfRange error and emit nothing, and
\* they do not fail while the value was only ever assigned by the
\* constructor, set(text), set(variant) or set(stream).
C10_OutOfRangeGuard ==
    (kind \in EnumKinds /\ last.op \in {"toString", "write"}) =>
        /\ value \notin Enumerators(kind) =>
                (ErrorKind(last.err) = "OutOfRange" /\ last.out = <<>> /\ last.str = "")
        /\ parsed => last.err = "none"

====
